---- MODULE Spec2Model ----
(***************************************************************************)
(* A model of sessions/session04_FSDP/ch023_t5_FSDP.py: the batch-size     *)
(* probe (find_max_batch_size), the training loop (train), the per-rank    *)
(* entry point (main) spawned once per device, and the synthetic dataset   *)
(* (DummyDataset).                                                         *)
(*                                                                         *)
(* Each spawned process (rank) runs main.  A rank's position in the code   *)
(* is pc[r].  Forward/backward passes through the sharded model and        *)
(* init_process_group are collectives: they complete on one rank only      *)
(* when every rank of the group has entered the same collective.  Whether  *)
(* a forward/backward pass succeeds, runs out of device memory or fails    *)
(* otherwise is decided by the device, per rank and per attempt.           *)
(***************************************************************************)
EXTENDS Integers, Sequences, FiniteSets, TLC

\* ------------------------------------------------------------------ bounds

\* Largest batch size drawn for start_batch_size and max_batch_size.
MaxBatch == 3
\* Largest stride drawn for step.
MaxStep == 2
\* Number of epochs main is spawned with (5 in the launch block).
epochs == 2
\* Samples of the training dataset (64000 in train).
TrainSamples == 4
\* Bounds of the DummyDataset arguments.
MaxSamples == 2
MaxTokens == 3
MaxLen == 2
MaxSeed == 2
\* The generator has RngMod states.
RngMod == 5

\* A probe with step = 0 never leaves its loop while attempts succeed; the
\* model follows it for this many attempts.
MaxAttempts == MaxBatch

\* ------------------------------------------------------------- the launcher

\* num_gpus = 2; world_size = num_gpus
num_gpus == 2
world_size == num_gpus
\* mp.spawn(main, nprocs=num_gpus, ...): one process per rank.
Ranks == 0 .. (num_gpus - 1)

VARIABLES
    start_batch_size,   \* arguments of main, the same on every rank
    max_batch_size,
    step,
    pc,                 \* pc[r]: where rank r is in main
    initialized,        \* initialized[r]: rank r's process group exists
    initCalls,          \* initCalls[r]: calls of init_process_group so far
    destroyCalls,       \* destroyCalls[r]: calls of destroy_process_group so far
    events,             \* events[r]: the stages rank r has been through
    batch_size,         \* locals of find_max_batch_size
    success_batch_size,
    outcome,            \* outcome[r]: result the device gives the pass in flight
    attempted,          \* attempted[r]: batch sizes whose pass was started
    result,             \* result[r]: how each finished pass ended
    returned,           \* returned[r]: find_max_batch_size has returned
    ret,                \* ret[r]: the value it returned
    exc,                \* exc[r]: the exception that left main, if any
    raisedIn,           \* raisedIn[r]: the function it propagated out of
    epoch,              \* locals of train
    batch,
    trainSteps,         \* trainSteps[r]: training passes started
    gen,                \* the global random generator of a process
    args,               \* arguments of the DummyDataset constructions
    ds,                 \* ds[i]: the i-th dataset constructed
    genAt               \* genAt[i]: the generator state construction i found

vars == << start_batch_size, max_batch_size, step, pc, initialized, initCalls,
           destroyCalls, events, batch_size, success_batch_size, outcome,
           attempted, result, returned, ret, exc, raisedIn, epoch, batch,
           trainSteps, gen, args, ds, genAt >>

inputVars == << start_batch_size, max_batch_size, step >>
probeVars == << batch_size, success_batch_size, attempted, result >>
trainVars == << epoch, batch, trainSteps >>
groupVars == << initialized, initCalls, destroyCalls >>
dataVars  == << gen, args, ds, genAt >>

\* ------------------------------------------------------------ DummyDataset

\* torch.manual_seed(seed): the generator state is a function of the seed alone.
manual_seed(seed) == seed % RngMod

\* One step of the generator.
NextGen(g) == (3 * g + 1) % RngMod

\* torch.randint(0, num_tokens, size=(count,)) drawn from generator state g:
\* the values, in drawing order.
RECURSIVE Draws(_, _, _)
Draws(g, num_tokens, count) ==
    IF count = 0 THEN << >>
    ELSE << NextGen(g) % num_tokens >> \o Draws(NextGen(g), num_tokens, count - 1)

\* The generator state after count draws.
RECURSIVE GenAfter(_, _)
GenAfter(g, count) == IF count = 0 THEN g ELSE GenAfter(NextGen(g), count - 1)

\* torch.randint(0, num_tokens, size=(num_samples, max_len)): row-major.
randint(g, num_tokens, num_samples, max_len) ==
    LET flat == Draws(g, num_tokens, num_samples * max_len)
    IN  [i \in 1 .. num_samples |->
            [j \in 1 .. max_len |-> flat[(i - 1) * max_len + j]]]

NoDataset == [num_samples |-> 0, input_ids |-> << >>,
              decoder_input_ids |-> << >>, labels |-> << >>]

\* DummyDataset.__init__ without the re-seeding: draws from whatever state
\* the generator is in.
DummyDatasetUnseeded(g, a) ==
    LET n  == a.num_samples * a.max_len
        g0 == g
        g1 == GenAfter(g0, n)
        g2 == GenAfter(g1, n)
    IN  [num_samples |-> a.num_samples,
         input_ids |-> randint(g0, a.num_tokens, a.num_samples, a.max_len),
         decoder_input_ids |-> randint(g1, a.num_tokens, a.num_samples, a.max_len),
         labels |-> randint(g2, a.num_tokens, a.num_samples, a.max_len)]

\* DummyDataset.__init__(num_samples, num_tokens, max_len, seed), constructed
\* in a process whose generator is in state g.
DummyDataset(g, a) ==
    LET n  == a.num_samples * a.max_len
        g0 == manual_seed(a.seed)
        g1 == GenAfter(g0, n)
        g2 == GenAfter(g1, n)
    IN  [num_samples |-> a.num_samples,
         input_ids |-> randint(g0, a.num_tokens, a.num_samples, a.max_len),
         decoder_input_ids |-> randint(g1, a.num_tokens, a.num_samples, a.max_len),
         labels |-> randint(g2, a.num_tokens, a.num_samples, a.max_len)]

\* The generator state DummyDataset.__init__ leaves behind.
GenAfterDataset(g, a) ==
    GenAfter(manual_seed(a.seed), 3 * a.num_samples * a.max_len)

\* DummyDataset.__len__
len(d) == d.num_samples

\* DummyDataset.__getitem__
getitem(d, idx) ==
    [input_ids |-> d.input_ids[idx],
     decoder_input_ids |-> d.decoder_input_ids[idx],
     labels |-> d.labels[idx]]

\* ------------------------------------------------------------------- helpers

\* What the device can answer to one forward/backward pass: it completes, it
\* raises RuntimeError("CUDA out of memory ..."), or it raises another
\* RuntimeError.
Outcomes == {"ok", "oom", "err"}

\* "CUDA out of memory" in str(e)
IsOOM(e) == e = "oom"

\* len(dataloader) in train: the DistributedSampler (drop_last=True) gives each
\* rank TrainSamples \div world_size samples, the DataLoader (drop_last=False)
\* cuts them into batches of bs.
NumBatches(bs) ==
    LET perRank == TrainSamples \div world_size
    IN  (perRank + bs - 1) \div bs

\* Every rank has entered its n-th init_process_group.
AllJoinedInit(n) == \A q \in Ranks : initCalls[q] >= n

\* Every rank has entered its n-th probe pass.
AllJoinedProbe(n) == \A q \in Ranks : Len(attempted[q]) >= n

\* Every rank has entered its n-th training pass.
AllJoinedTrain(n) == \A q \in Ranks : trainSteps[q] >= n

\* --------------------------------------------------------------------- Init

\* The two constructions that are compared.
Slots == {1, 2}

DefaultArgs == [num_samples |-> 1, num_tokens |-> 1, max_len |-> 1, seed |-> 0]

RankInit ==
    /\ pc = [r \in Ranks |-> "main"]
    /\ initialized = [r \in Ranks |-> FALSE]
    /\ initCalls = [r \in Ranks |-> 0]
    /\ destroyCalls = [r \in Ranks |-> 0]
    /\ events = [r \in Ranks |-> << >>]
    /\ batch_size = [r \in Ranks |-> 0]
    /\ success_batch_size = [r \in Ranks |-> 0]
    /\ outcome = [r \in Ranks |-> "none"]
    /\ attempted = [r \in Ranks |-> << >>]
    /\ result = [r \in Ranks |-> << >>]
    /\ returned = [r \in Ranks |-> FALSE]
    /\ ret = [r \in Ranks |-> 0]
    /\ exc = [r \in Ranks |-> "none"]
    /\ raisedIn = [r \in Ranks |-> "none"]
    /\ epoch = [r \in Ranks |-> 0]
    /\ batch = [r \in Ranks |-> 0]
    /\ trainSteps = [r \in Ranks |-> 0]

\* mp.spawn(main, nprocs=num_gpus, args=(world_size, start_batch_size,
\* max_batch_size, step, epochs)): every rank gets the same arguments.
Init ==
    /\ start_batch_size \in 1 .. MaxBatch
    /\ max_batch_size \in 1 .. MaxBatch
    /\ step \in 0 .. MaxStep
    /\ RankInit
    /\ gen = 0
    /\ args = DefaultArgs
    /\ ds = [i \in Slots |-> NoDataset]
    /\ genAt = [i \in Slots |-> 0]

\* ------------------------------------------------------ find_max_batch_size

\* main calls find_max_batch_size, which calls dist.init_process_group.
FindInitCall(r) ==
    /\ pc[r] = "main"
    /\ initCalls' = [initCalls EXCEPT ![r] = @ + 1]
    /\ pc' = [pc EXCEPT ![r] = "find_init"]
    /\ UNCHANGED << inputVars, initialized, destroyCalls, events, probeVars,
                    outcome, returned, ret, exc, raisedIn, trainVars, dataVars >>

\* init_process_group returns once every rank has joined the rendezvous.
FindInitDone(r) ==
    /\ pc[r] = "find_init"
    /\ AllJoinedInit(initCalls[r])
    /\ initialized' = [initialized EXCEPT ![r] = TRUE]
    /\ events' = [events EXCEPT ![r] = Append(@, "init")]
    /\ pc' = [pc EXCEPT ![r] = "find_model"]
    /\ UNCHANGED << inputVars, initCalls, destroyCalls, probeVars, outcome,
                    returned, ret, exc, raisedIn, trainVars, dataVars >>

\* set_device, initialize_model, the dataset and sampler, and
\* batch_size = start_batch_size; success_batch_size = batch_size.
FindSetup(r) ==
    /\ pc[r] = "find_model"
    /\ events' = [events EXCEPT ![r] = Append(@, "model")]
    /\ batch_size' = [batch_size EXCEPT ![r] = start_batch_size]
    /\ success_batch_size' = [success_batch_size EXCEPT ![r] = start_batch_size]
    /\ pc' = [pc EXCEPT ![r] = "loop"]
    /\ UNCHANGED << inputVars, groupVars, outcome, attempted, result,
                    returned, ret, exc, raisedIn, trainVars, dataVars >>

\* while batch_size <= max_batch_size: build the DataLoader, enter the try
\* block and start the forward/backward pass; otherwise leave the loop.
LoopCheck(r) ==
    /\ pc[r] = "loop"
    /\ IF batch_size[r] <= max_batch_size
       THEN /\ Len(attempted[r]) < MaxAttempts
            /\ \E o \in Outcomes : outcome' = [outcome EXCEPT ![r] = o]
            /\ attempted' = [attempted EXCEPT ![r] = Append(@, batch_size[r])]
            /\ pc' = [pc EXCEPT ![r] = "step"]
            /\ UNCHANGED events
       ELSE /\ events' = [events EXCEPT ![r] = Append(@, "probe")]
            /\ pc' = [pc EXCEPT ![r] = "find_destroy"]
            /\ UNCHANGED << outcome, attempted >>
    /\ UNCHANGED << inputVars, groupVars, batch_size, success_batch_size,
                    result, returned, ret, exc, raisedIn, trainVars, dataVars >>

\* The pass completed: success_batch_size = batch_size; batch_size += step.
StepOk(r) ==
    /\ pc[r] = "step"
    /\ outcome[r] = "ok"
    /\ AllJoinedProbe(Len(attempted[r]))
    /\ result' = [result EXCEPT ![r] = Append(@, "ok")]
    /\ success_batch_size' = [success_batch_size EXCEPT ![r] = batch_size[r]]
    /\ batch_size' = [batch_size EXCEPT ![r] = @ + step]
    /\ outcome' = [outcome EXCEPT ![r] = "none"]
    /\ pc' = [pc EXCEPT ![r] = "loop"]
    /\ UNCHANGED << inputVars, groupVars, events, attempted, returned, ret,
                    exc, raisedIn, trainVars, dataVars >>

\* StepOOM as it would be with a retry: the out-of-memory failure is logged and
\* the loop goes round again at the same batch size.
StepOOMRetry(r) ==
    /\ pc[r] = "step"
    /\ outcome[r] # "ok"
    /\ IsOOM(outcome[r])
    /\ result' = [result EXCEPT ![r] = Append(@, outcome[r])]
    /\ outcome' = [outcome EXCEPT ![r] = "none"]
    /\ pc' = [pc EXCEPT ![r] = "loop"]
    /\ UNCHANGED << inputVars, groupVars, events, batch_size,
                    success_batch_size, attempted, returned, ret, exc,
                    raisedIn, trainVars, dataVars >>

\* except RuntimeError as e, "CUDA out of memory" in str(e): break.
StepOOM(r) ==
    /\ pc[r] = "step"
    /\ outcome[r] # "ok"
    /\ IsOOM(outcome[r])
    /\ result' = [result EXCEPT ![r] = Append(@, outcome[r])]
    /\ outcome' = [outcome EXCEPT ![r] = "none"]
    /\ events' = [events EXCEPT ![r] = Append(@, "probe")]
    /\ pc' = [pc EXCEPT ![r] = "find_destroy"]
    /\ UNCHANGED << inputVars, groupVars, batch_size, success_batch_size,
                    attempted, returned, ret, exc, raisedIn, trainVars,
                    dataVars >>

\* StepErr as it would be if every RuntimeError ended the loop like an
\* out-of-memory failure (a bare "except RuntimeError: break").
StepErrSwallowed(r) ==
    /\ pc[r] = "step"
    /\ outcome[r] # "ok"
    /\ ~IsOOM(outcome[r])
    /\ result' = [result EXCEPT ![r] = Append(@, outcome[r])]
    /\ outcome' = [outcome EXCEPT ![r] = "none"]
    /\ events' = [events EXCEPT ![r] = Append(@, "probe")]
    /\ pc' = [pc EXCEPT ![r] = "find_destroy"]
    /\ UNCHANGED << inputVars, groupVars, batch_size, success_batch_size,
                    attempted, returned, ret, exc, raisedIn, trainVars,
                    dataVars >>

\* except RuntimeError as e, any other message: raise e.  The error leaves
\* find_max_batch_size and main; the process ends with it.
StepErr(r) ==
    /\ pc[r] = "step"
    /\ outcome[r] # "ok"
    /\ ~IsOOM(outcome[r])
    /\ result' = [result EXCEPT ![r] = Append(@, outcome[r])]
    /\ exc' = [exc EXCEPT ![r] = outcome[r]]
    /\ raisedIn' = [raisedIn EXCEPT ![r] = "find_max_batch_size"]
    /\ outcome' = [outcome EXCEPT ![r] = "none"]
    /\ pc' = [pc EXCEPT ![r] = "raised"]
    /\ UNCHANGED << inputVars, groupVars, events, batch_size,
                    success_batch_size, attempted, returned, ret, trainVars,
                    dataVars >>

\* FindReturn as it would be without the teardown: the probe returns and
\* leaves its process group in place.
FindReturnNoDestroy(r) ==
    /\ pc[r] = "find_destroy"
    /\ returned' = [returned EXCEPT ![r] = TRUE]
    /\ ret' = [ret EXCEPT ![r] = success_batch_size[r]]
    /\ pc' = [pc EXCEPT ![r] = "main_train"]
    /\ UNCHANGED << inputVars, groupVars, events, probeVars, outcome, exc,
                    raisedIn, trainVars, dataVars >>

\* dist.destroy_process_group(); return success_batch_size.
FindReturn(r) ==
    /\ pc[r] = "find_destroy"
    /\ initialized' = [initialized EXCEPT ![r] = FALSE]
    /\ destroyCalls' = [destroyCalls EXCEPT ![r] = @ + 1]
    /\ events' = [events EXCEPT ![r] = Append(@, "destroy")]
    /\ returned' = [returned EXCEPT ![r] = TRUE]
    /\ ret' = [ret EXCEPT ![r] = success_batch_size[r]]
    /\ pc' = [pc EXCEPT ![r] = "main_train"]
    /\ UNCHANGED << inputVars, initCalls, probeVars, outcome, exc, raisedIn,
                    trainVars, dataVars >>

\* -------------------------------------------------------------------- train

\* main calls train(batch_size=max_batch_size), which calls
\* dist.init_process_group.
TrainInitCall(r) ==
    /\ pc[r] = "main_train"
    /\ initCalls' = [initCalls EXCEPT ![r] = @ + 1]
    /\ pc' = [pc EXCEPT ![r] = "train_init"]
    /\ UNCHANGED << inputVars, initialized, destroyCalls, events, probeVars,
                    outcome, returned, ret, exc, raisedIn, trainVars, dataVars >>

\* init_process_group returns once every rank has joined the rendezvous.
TrainInitDone(r) ==
    /\ pc[r] = "train_init"
    /\ AllJoinedInit(initCalls[r])
    /\ initialized' = [initialized EXCEPT ![r] = TRUE]
    /\ events' = [events EXCEPT ![r] = Append(@, "init")]
    /\ pc' = [pc EXCEPT ![r] = "train_model"]
    /\ UNCHANGED << inputVars, initCalls, destroyCalls, probeVars, outcome,
                    returned, ret, exc, raisedIn, trainVars, dataVars >>

\* set_device, initialize_model, dataset, sampler, dataloader, optimizer.
TrainSetup(r) ==
    /\ pc[r] = "train_model"
    /\ events' = [events EXCEPT ![r] = Append(@, "model")]
    /\ epoch' = [epoch EXCEPT ![r] = 0]
    /\ batch' = [batch EXCEPT ![r] = 0]
    /\ pc' = [pc EXCEPT ![r] = "epochs"]
    /\ UNCHANGED << inputVars, groupVars, probeVars, outcome, returned, ret,
                    exc, raisedIn, trainSteps, dataVars >>

\* for epoch in range(epochs): for data in batch_bar: start the next pass;
\* after the last epoch leave the loop.
TrainLoop(r) ==
    /\ pc[r] = "epochs"
    /\ IF epoch[r] < epochs
       THEN /\ \E o \in Outcomes : outcome' = [outcome EXCEPT ![r] = o]
            /\ trainSteps' = [trainSteps EXCEPT ![r] = @ + 1]
            /\ pc' = [pc EXCEPT ![r] = "train_step"]
            /\ UNCHANGED events
       ELSE /\ events' = [events EXCEPT ![r] = Append(@, "train")]
            /\ pc' = [pc EXCEPT ![r] = "train_destroy"]
            /\ UNCHANGED << outcome, trainSteps >>
    /\ UNCHANGED << inputVars, groupVars, probeVars, returned, ret, exc,
                    raisedIn, epoch, batch, dataVars >>

\* zero_grad, forward, backward, optimizer.step completed; on to the next
\* batch, or to the next epoch after the last batch.
TrainStepOk(r) ==
    /\ pc[r] = "train_step"
    /\ outcome[r] = "ok"
    /\ AllJoinedTrain(trainSteps[r])
    /\ IF batch[r] + 1 < NumBatches(ret[r])
       THEN /\ batch' = [batch EXCEPT ![r] = @ + 1]
            /\ UNCHANGED epoch
       ELSE /\ batch' = [batch EXCEPT ![r] = 0]
            /\ epoch' = [epoch EXCEPT ![r] = @ + 1]
    /\ outcome' = [outcome EXCEPT ![r] = "none"]
    /\ pc' = [pc EXCEPT ![r] = "epochs"]
    /\ UNCHANGED << inputVars, groupVars, events, probeVars, returned, ret,
                    exc, raisedIn, trainSteps, dataVars >>

\* TrainStepFail as it would be with the loop in try/finally: the group is
\* destroyed before the failure leaves train.
TrainStepFailTeardown(r) ==
    /\ pc[r] = "train_step"
    /\ outcome[r] # "ok"
    /\ initialized' = [initialized EXCEPT ![r] = FALSE]
    /\ destroyCalls' = [destroyCalls EXCEPT ![r] = @ + 1]
    /\ exc' = [exc EXCEPT ![r] = outcome[r]]
    /\ raisedIn' = [raisedIn EXCEPT ![r] = "train"]
    /\ outcome' = [outcome EXCEPT ![r] = "none"]
    /\ pc' = [pc EXCEPT ![r] = "raised"]
    /\ UNCHANGED << inputVars, initCalls, events, probeVars, returned, ret,
                    trainVars, dataVars >>

\* train has no try block: any failure of a pass, out of memory included,
\* leaves train and main.
TrainStepFail(r) ==
    /\ pc[r] = "train_step"
    /\ outcome[r] # "ok"
    /\ exc' = [exc EXCEPT ![r] = outcome[r]]
    /\ raisedIn' = [raisedIn EXCEPT ![r] = "train"]
    /\ outcome' = [outcome EXCEPT ![r] = "none"]
    /\ pc' = [pc EXCEPT ![r] = "raised"]
    /\ UNCHANGED << inputVars, groupVars, events, probeVars, returned, ret,
                    trainVars, dataVars >>

\* dist.destroy_process_group() at the end of train; main returns.
TrainReturn(r) ==
    /\ pc[r] = "train_destroy"
    /\ initialized' = [initialized EXCEPT ![r] = FALSE]
    /\ destroyCalls' = [destroyCalls EXCEPT ![r] = @ + 1]
    /\ events' = [events EXCEPT ![r] = Append(@, "destroy")]
    /\ pc' = [pc EXCEPT ![r] = "done"]
    /\ UNCHANGED << inputVars, initCalls, probeVars, outcome, returned, ret,
                    exc, raisedIn, trainVars, dataVars >>

\* --------------------------------------------------------------------- main

\* One step of the process running main(rank = r, ...).
main(r) ==
    \/ FindInitCall(r)
    \/ FindInitDone(r)
    \/ FindSetup(r)
    \/ LoopCheck(r)
    \/ StepOk(r)
    \/ StepOOM(r)
    \/ StepErr(r)
    \/ FindReturn(r)
    \/ TrainInitCall(r)
    \/ TrainInitDone(r)
    \/ TrainSetup(r)
    \/ TrainLoop(r)
    \/ TrainStepOk(r)
    \/ TrainStepFail(r)
    \/ TrainReturn(r)

Next == \E r \in Ranks : main(r)

Spec == Init /\ [][Next]_vars

\* Every spawned process keeps running while it can take a step.
FairSpec == Spec /\ \A r \in Ranks : WF_vars(main(r))

\* ------------------------------------------------- DummyDataset on its own

\* Some process, with its generator in any state, is about to construct
\* DummyDataset(num_samples, num_tokens, max_len, seed) twice.
DataInit ==
    /\ start_batch_size = 1
    /\ max_batch_size = 1
    /\ step = 1
    /\ RankInit
    /\ gen \in 0 .. (RngMod - 1)
    /\ args \in [num_samples : 1 .. MaxSamples, num_tokens : 1 .. MaxTokens,
                 max_len : 1 .. MaxLen, seed : 0 .. MaxSeed]
    /\ ds = [i \in Slots |-> NoDataset]
    /\ genAt = [i \in Slots |-> 0]

\* DummyDataset(...) is constructed: the tensors are drawn and the generator
\* is left where the draws ended.
Construct(i) ==
    /\ ds[i] = NoDataset
    /\ ds' = [ds EXCEPT ![i] = DummyDataset(gen, args)]
    /\ genAt' = [genAt EXCEPT ![i] = gen]
    /\ gen' = GenAfterDataset(gen, args)
    /\ UNCHANGED << args, inputVars, pc, groupVars, events, probeVars, outcome,
                    returned, ret, exc, raisedIn, trainVars >>

\* Other code of the process draws a random number.
OtherDraw ==
    /\ gen' = NextGen(gen)
    /\ UNCHANGED << args, ds, genAt, inputVars, pc, groupVars, events,
                    probeVars, outcome, returned, ret, exc, raisedIn, trainVars >>

\* Other code re-seeds the generator, or the next construction happens in
\* another process (rank), whose generator is in another state.
OtherSeed ==
    /\ \E s \in 0 .. (RngMod - 1) : s # gen /\ gen' = s
    /\ UNCHANGED << args, ds, genAt, inputVars, pc, groupVars, events,
                    probeVars, outcome, returned, ret, exc, raisedIn, trainVars >>

DataNext ==
    \/ \E i \in Slots : Construct(i)
    \/ OtherDraw
    \/ OtherSeed

DataSpec == DataInit /\ [][DataNext]_vars

\* ------------------------------------------------------------------- claims

Last(q) == q[Len(q)]

IsPrefix(p, q) == Len(p) <= Len(q) /\ \A i \in 1 .. Len(p) : p[i] = q[i]

\* The batch sizes whose pass completed on rank r.
Succeeded(r) ==
    { attempted[r][i] : i \in { j \in 1 .. Len(result[r]) : result[r][j] = "ok" } }

\* The batch sizes whose pass ran out of memory on rank r.
RanOutOfMemory(r) ==
    { attempted[r][i] : i \in { j \in 1 .. Len(result[r]) : result[r][j] = "oom" } }

\* C1: whenever find_max_batch_size returns, the value it returns is at most
\* max_batch_size, also when start_batch_size exceeds max_batch_size and the
\* loop body never runs.
C1_ReturnAtMostMax ==
    \A r \in Ranks : returned[r] => ret[r] <= max_batch_size

\* C2: a pass that raises a RuntimeError other than out-of-memory ends the
\* probe: it is the last pass attempted, the same error leaves the probe, and
\* the probe returns no value.
C2_OtherErrorPropagates ==
    \A r \in Ranks : \A i \in 1 .. Len(result[r]) :
        (result[r][i] \notin {"ok", "oom"}) =>
            /\ i = Len(result[r])
            /\ Len(attempted[r]) = i
            /\ pc[r] = "raised"
            /\ raisedIn[r] = "find_max_batch_size"
            /\ exc[r] = result[r][i]
            /\ ~returned[r]

\* C2's case: an attempt failed with another error after an earlier success.
C2_Witness ==
    \E r \in Ranks :
        /\ Len(result[r]) >= 2
        /\ Last(result[r]) = "err"
        /\ pc[r] = "raised"

\* C3: when a pass runs out of memory, at the first attempt or a later one,
\* the probe attempts nothing more and returns a batch size whose pass
\* completed during this probe.
C3_OOMReturnsSuccessfulSize ==
    \A r \in Ranks :
        (returned[r] /\ Len(result[r]) > 0 /\ Last(result[r]) = "oom") =>
            /\ Len(attempted[r]) = Len(result[r])
            /\ ret[r] \in Succeeded(r)

\* The stages of main, in the order of the code.
MainOrder ==
    << "init", "model", "probe", "destroy", "init", "model", "train", "destroy" >>

\* C4: on every rank the stages of main happen in the order of MainOrder; a
\* rank that finishes has been through all of them and has initialised and
\* destroyed its group twice each; init_process_group is never called while
\* the group exists, and no pass runs while it does not.
C4_MainOrder ==
    \A r \in Ranks :
        /\ IsPrefix(events[r], MainOrder)
        /\ initCalls[r] <= 2
        /\ destroyCalls[r] <= 2
        /\ (pc[r] = "done") =>
              /\ events[r] = MainOrder
              /\ initCalls[r] = 2
              /\ destroyCalls[r] = 2
        /\ (pc[r] \in {"find_init", "train_init"}) => ~initialized[r]
        /\ (pc[r] \in {"step", "train_step"}) => initialized[r]

\* C4's case: a rank went through the whole of main.
C4_Witness == \E r \in Ranks : pc[r] = "done" /\ Len(attempted[r]) >= 2

\* C5: the group is destroyed once when the probe ends gracefully and once
\* more when training completes, and never on an error path: a failure that
\* leaves the probe leaves the group initialised, never destroyed, and train
\* not started; a failure that leaves train leaves the group of train
\* initialised.
C5_TeardownOnSuccessOnly ==
    \A r \in Ranks :
        /\ destroyCalls[r] = (IF returned[r] THEN 1 ELSE 0)
                             + (IF pc[r] = "done" THEN 1 ELSE 0)
        /\ (pc[r] = "main_train") => (returned[r] /\ ~initialized[r])
        /\ (pc[r] = "done") => ~initialized[r]
        /\ (pc[r] = "raised" /\ raisedIn[r] = "find_max_batch_size") =>
              /\ ~returned[r]
              /\ initialized[r]
              /\ initCalls[r] = 1
              /\ trainSteps[r] = 0
        /\ (pc[r] = "raised" /\ raisedIn[r] = "train") =>
              /\ returned[r]
              /\ initialized[r]
              /\ initCalls[r] = 2

\* C5's case: an out-of-memory failure left train on one rank while another
\* rank's probe had ended gracefully.
C5_Witness ==
    \E r \in Ranks :
        /\ pc[r] = "raised"
        /\ raisedIn[r] = "train"
        /\ exc[r] = "oom"

\* C6: two constructions of DummyDataset with the same arguments hold the
\* same tensors at every index, whatever state the generator was in before
\* each of them; the first value drawn is the first value after seeding.
C6_DatasetDeterministic ==
    \A i \in Slots : \A j \in Slots :
        (ds[i] # NoDataset /\ ds[j] # NoDataset) =>
            /\ len(ds[i]) = args.num_samples
            /\ len(ds[i]) = len(ds[j])
            /\ \A idx \in 1 .. len(ds[i]) : getitem(ds[i], idx) = getitem(ds[j], idx)
            /\ ds[i].input_ids[1][1]
                   = NextGen(manual_seed(args.seed)) % args.num_tokens

\* C6's case: both datasets exist, were constructed from different generator
\* states, and hold more than one token value.
C6_Witness ==
    /\ ds[1] # NoDataset
    /\ ds[2] # NoDataset
    /\ genAt[1] # genAt[2]
    /\ genAt[1] # manual_seed(args.seed)
    /\ \E idx \in 1 .. len(ds[1]) : \E k \in 1 .. args.max_len :
          ds[1].input_ids[idx][k] # ds[1].labels[idx][k]

\* The probe of rank r is a linear search without retry: the i-th size
\* attempted is start_batch_size + (i-1)*step and at most max_batch_size, no
\* size is attempted twice, and nothing is attempted after a failure.
LinearSearch(r) ==
    /\ \A i \in 1 .. Len(attempted[r]) :
          /\ attempted[r][i] = start_batch_size + (i - 1) * step
          /\ attempted[r][i] <= max_batch_size
    /\ \A i \in 1 .. Len(attempted[r]) : \A j \in 1 .. Len(attempted[r]) :
          (i # j) => attempted[r][i] # attempted[r][j]
    /\ Len(result[r]) <= Len(attempted[r])
    /\ Len(attempted[r]) <= Len(result[r]) + 1
    /\ \A i \in 1 .. Len(result[r]) :
          (result[r][i] # "ok") => (i = Len(result[r]) /\ Len(attempted[r]) = i)

\* C7 as stated: on every rank the probe is a linear search without retry,
\* each size attempted at most once.
C7_LinearSearch == \A r \in Ranks : LinearSearch(r)

\* C7, amended: when step > 0, on every rank the probe is a linear search
\* without retry, each size attempted at most once.
C7_LinearSearchPositiveStep ==
    (step > 0) => \A r \in Ranks : LinearSearch(r)

\* C7's case: with a positive step, a probe attempted several sizes and
\* stopped at an out-of-memory failure.
C7_Witness ==
    /\ step > 0
    /\ \E r \in Ranks :
          /\ Len(attempted[r]) >= 2
          /\ Len(result[r]) = Len(attempted[r])
          /\ Last(result[r]) = "oom"
          /\ returned[r]

\* C8: all ranks that return from the probe return the same batch size,
\* after the same number of attempts (stated for a positive step, as in the
\* launch block).
C8_RanksAgree ==
    \A r \in Ranks : \A q \in Ranks :
        (step > 0 /\ returned[r] /\ returned[q]) =>
            /\ ret[r] = ret[q]
            /\ Len(attempted[r]) = Len(attempted[q])

\* C9: under fair scheduling, unless a failure leaves main on some rank,
\* every rank eventually finishes the probe, the training and the final
\* teardown (for a positive step, without which the probe loop never ends).
C9_EveryRankFinishes ==
    (step > 0) =>
        <>((\A r \in Ranks : pc[r] = "done") \/ (\E r \in Ranks : pc[r] = "raised"))

\* C10: for start_batch_size <= max_batch_size and step > 0 the returned size
\* s is start_batch_size + k*step, and either s + step exceeds
\* max_batch_size or the pass at s + step ran out of memory; when every pass
\* succeeded it is the largest such size within max_batch_size.
C10_ReturnedIsMaximal ==
    \A r \in Ranks :
        (returned[r] /\ start_batch_size <= max_batch_size /\ step > 0) =>
            /\ \E k \in 0 .. max_batch_size : ret[r] = start_batch_size + k * step
            /\ \/ ret[r] + step > max_batch_size
               \/ (ret[r] + step) \in RanOutOfMemory(r)
            /\ (\A i \in 1 .. Len(result[r]) : result[r][i] = "ok") =>
                  (ret[r] <= max_batch_size /\ ret[r] + step > max_batch_size)

====
